---- MODULE Spec2Model ----
(***************************************************************************)
(* Model of mongodb_consistent_backup/Backup/Mongodump/Mongodump.py:       *)
(* class Mongodump, the orchestrator that builds one MongodumpThread per   *)
(* shard, starts them, polls them in wait(), gathers the oplog summaries   *)
(* and optionally repeats the cycle for a standalone config server.        *)
(* The control thread (run/wait), the dump jobs and the SIGINT handler are *)
(* interleaved at the granularity of the statements between which another  *)
(* process can be observed.                                                *)
(***************************************************************************)
EXTENDS Integers, Sequences, FiniteSets, TLC

\* ---------------------------------------------------------------- bounds
MaxShards == 2          \* shards are 1..MaxShards
MaxCpu == 2             \* cpu_count() is drawn from 1..MaxCpu
MaxOverride == 1        \* threads_per_dump(threads) override drawn from 0..MaxOverride
PlanMaxCpu == 36        \* planner runs: cpu_count() is drawn from 1..PlanMaxCpu
PlanMaxShards == 2      \* planner runs: len(self.replsets) is drawn from 0..PlanMaxShards
PlanMaxOverride == 17   \* planner runs: the override is drawn from 0..PlanMaxOverride

\* ------------------------------------------------------ program constants
threads_per_dump_max == 16
ConfigKey == 0          \* the key 'configsvr' of self.states / self._summary
SignalHandlerArgs == 2  \* a handler installed with signal() is called as f(signum, frame)

Shards == 1..MaxShards
Keys == {ConfigKey} \cup Shards

\* A dotted version string, split on ".": a tuple of STRINGS, each string a
\* sequence of digit characters ("3.10.0" is << <<3>>, <<1,0>>, <<0>> >>).
V_3_2_0 == << <<3>>, <<2>>, <<0>> >>
V_3_10_0 == << <<3>>, <<1, 0>>, <<0>> >>
V_3_0_12 == << <<3>>, <<0>>, <<1, 2>> >>
Versions == {V_3_2_0, V_3_10_0, V_3_0_12}

VARIABLES
    pc,                 \* position of the control thread in run()/wait()
    err,                \* the exception run() (or the caller's close()) ended with
    replsets,           \* keys of the replsets dict
    secondary,          \* what each shard's find_secondary() answers
    sharding,           \* the sharding kwarg and what get_config_server() answers
    version,            \* self.version
    cpu_count,          \* self.cpu_count
    todo,               \* shards the dispatch loop has not visited yet
    threads,            \* self.threads
    job,                \* each job's execution unit: status and exit code
    handed,             \* worker-thread count handed to each job's constructor
    states,             \* self.states: key -> content of its OplogState
    summary_,           \* self._summary
    tpd,                \* self._threads_per_dump (<<>> is None, <<n>> is n)
    completed,          \* self.completed
    timer,              \* the timer entry of self.timer_name
    idx,                \* position of a list iterator (start loop, wait() for loop)
    nCompleted,         \* wait(): local completed
    start_threads,      \* wait(): local start_threads
    phase,              \* which phase wait() serves: "shard" or "configsvr"
    termReq,            \* jobs whose terminate() has been called
    intAt,              \* history: where run() stood when SIGINT arrived ("none": never)
    closeErr,           \* the exception close() (or its invocation) ended with
    ret,                \* what the last threads_per_dump() call returned (<<>>: None)
    lastArg,            \* the argument of the last threads_per_dump() call (<<>>: none)
    ovr,                \* history: the last non-zero thread count passed explicitly
    called,             \* history: threads_per_dump() has been called
    sumRet,             \* what the last summary() call returned (<<>>: no call yet)
    nStates             \* history: OplogState/MongodumpThread pairs built per key

vars == <<pc, err, replsets, secondary, sharding, version, cpu_count, todo, threads,
          job, handed, states, summary_, tpd, completed, timer, idx, nCompleted,
          start_threads, phase, termReq, intAt, closeErr, ret, lastArg, ovr, called,
          sumRet, nStates>>

inputs == <<replsets, secondary, sharding, version, cpu_count>>
waitLocals == <<idx, nCompleted, start_threads>>
callVars == <<ret, lastArg, ovr, called>>

EmptyMap == [k \in {} |-> TRUE]

\* -------------------------------------------------------------- helpers
\* Python's comparison of two str objects made of digits: character by character.
RECURSIVE StrLE(_, _)
StrLE(a, b) ==
    IF a = <<>> THEN TRUE
    ELSE IF b = <<>> THEN FALSE
    ELSE IF Head(a) < Head(b) THEN TRUE
    ELSE IF Head(a) > Head(b) THEN FALSE
    ELSE StrLE(Tail(a), Tail(b))

\* Python's comparison of two tuples of str: first differing element decides.
RECURSIVE TupleLE(_, _)
TupleLE(a, b) ==
    IF a = <<>> THEN TRUE
    ELSE IF b = <<>> THEN FALSE
    ELSE IF Head(a) = Head(b) THEN TupleLE(Tail(a), Tail(b))
    ELSE StrLE(Head(a), Head(b))

\* tuple("3.2.0".split(".")) <= tuple(self.version.split("."))
VersionSupported(v) == TupleLE(V_3_2_0, v)

\* can_gzip(), the binary being present and executable after construction
can_gzip == VersionSupported(version)

\* truth value of a Python int-or-None
Truthy(x) == x # <<>> /\ x[1] # 0

\* threads_per_dump(threads) divides by len(self.replsets): with an empty dict
\* the call ends in ZeroDivisionError
ZeroDivision(cur, arg, v, cpus, nsets) ==
    ~Truthy(arg) /\ ~Truthy(cur) /\ VersionSupported(v) /\ cpus > nsets /\ nsets = 0

\* (variant) the cap threads_per_dump_max is not applied
threads_per_dump_uncapped(cur, arg, v, cpus, nsets) ==
    IF Truthy(arg) THEN arg
    ELSE IF ~Truthy(cur) THEN
        IF VersionSupported(v) THEN
            IF cpus > nsets THEN
                IF nsets = 0 THEN <<1>> ELSE <<cpus \div nsets>>
            ELSE <<1>>
        ELSE cur
    ELSE cur

\* (variant) the division the wrong way round
threads_per_dump_swapped(cur, arg, v, cpus, nsets) ==
    IF Truthy(arg) THEN arg
    ELSE IF ~Truthy(cur) THEN
        IF VersionSupported(v) THEN
            IF cpus > nsets THEN
                IF nsets \div cpus > threads_per_dump_max
                THEN <<threads_per_dump_max>>
                ELSE <<nsets \div cpus>>
            ELSE <<1>>
        ELSE cur
    ELSE cur

\* (variant) an explicit thread count is capped like a computed one
threads_per_dump_clamped(cur, arg, v, cpus, nsets) ==
    IF Truthy(arg)
    THEN IF arg[1] > threads_per_dump_max THEN <<threads_per_dump_max>> ELSE arg
    ELSE IF ~Truthy(cur) THEN
        IF VersionSupported(v) THEN
            IF cpus > nsets THEN
                IF nsets = 0 THEN <<1>>
                ELSE IF cpus \div nsets > threads_per_dump_max
                THEN <<threads_per_dump_max>>
                ELSE <<cpus \div nsets>>
            ELSE <<1>>
        ELSE cur
    ELSE cur

\* (variant) the cached value is not consulted: every call without an
\* explicit count computes again
threads_per_dump_nocache(cur, arg, v, cpus, nsets) ==
    IF Truthy(arg) THEN arg
    ELSE IF VersionSupported(v) THEN
        IF cpus > nsets THEN
            IF nsets = 0 THEN <<1>>
            ELSE IF cpus \div nsets > threads_per_dump_max
            THEN <<threads_per_dump_max>>
            ELSE <<cpus \div nsets>>
        ELSE <<1>>
    ELSE cur

\* threads_per_dump(threads): the new value of self._threads_per_dump, which is
\* also the value returned (when the division fails, the 1 assigned before it
\* stays).
threads_per_dump(cur, arg, v, cpus, nsets) ==
    IF Truthy(arg) THEN arg
    ELSE IF ~Truthy(cur) THEN
        IF VersionSupported(v) THEN
            IF cpus > nsets THEN
                IF nsets = 0 THEN <<1>>
                ELSE IF cpus \div nsets > threads_per_dump_max
                THEN <<threads_per_dump_max>>
                ELSE <<cpus \div nsets>>
            ELSE <<1>>
        ELSE cur
    ELSE cur

Plan == threads_per_dump(tpd, <<>>, version, cpu_count, Cardinality(replsets))

\* One call self.threads_per_dump(a): the field, the value returned (nothing
\* when the call ends in ZeroDivisionError) and the history of the calls.
CallThreadsPerDump(a) ==
    /\ tpd' = threads_per_dump(tpd, a, version, cpu_count, Cardinality(replsets))
    /\ ret' = IF ZeroDivision(tpd, a, version, cpu_count, Cardinality(replsets))
              THEN <<>> ELSE tpd'
    /\ lastArg' = a
    /\ ovr' = IF Truthy(a) THEN a ELSE ovr
    /\ called' = TRUE

\* list.remove(x): drops the first occurrence
RemoveAt(s, i) == [n \in 1..(Len(s) - 1) |-> IF n < i THEN s[n] ELSE s[n + 1]]

NoJob == [st |-> "none", code |-> "None"]

\* What replsets[shard].find_secondary() can answer: a member ("ok"), nothing
\* (None, "none"), or a failure ("fail": it raises the package's OperationError).
SecondaryOutcomes == {"ok", "none", "fail"}

\* What the sharding kwarg is: not given ("None"), or an object whose
\* get_config_server() answers None ("absent"), a dict with the host of a
\* standalone config server ("standalone"), or a non-dict for a config
\* replica set ("replset").
ShardingKinds == {"None", "absent", "standalone", "replset"}

\* -------------------------------------------------------------- Init
\* The object after __init__: 'replsets' is a dict, the binary was found.
Fresh ==
    /\ pc = "idle"
    /\ err = "none"
    /\ todo = {}
    /\ threads = <<>>
    /\ job = [k \in Keys |-> NoJob]
    /\ handed = [k \in Keys |-> <<>>]
    /\ states = EmptyMap
    /\ summary_ = EmptyMap
    /\ tpd = <<>>
    /\ completed = FALSE
    /\ timer = "unset"
    /\ idx = 0
    /\ nCompleted = 0
    /\ start_threads = 0
    /\ phase = "none"
    /\ termReq = {}
    /\ intAt = "none"
    /\ closeErr = "none"
    /\ ret = <<>>
    /\ lastArg = <<>>
    /\ ovr = <<>>
    /\ called = FALSE
    /\ sumRet = <<>>
    /\ nStates = [k \in Keys |-> 0]

Init ==
    /\ \E n \in 0..MaxShards : replsets = 1..n
    /\ secondary \in [replsets -> SecondaryOutcomes]
    /\ sharding \in ShardingKinds
    /\ version \in Versions
    /\ cpu_count \in 1..MaxCpu
    /\ Fresh

\* The same object on hosts and clusters of other sizes, for the calls of
\* threads_per_dump() alone.
InitPlan ==
    /\ \E n \in 0..PlanMaxShards : replsets = 1..n
    /\ secondary = [s \in replsets |-> "ok"]
    /\ sharding = "None"
    /\ version \in Versions
    /\ cpu_count \in 1..PlanMaxCpu
    /\ Fresh


\* ------------------------------------------------- small code predicates
\* the execution unit of job k is running
IsAlive(k) == job[k].st = "alive"

\* (variant) the liveness test of wait() inverted
is_alive_inverted(k) == job[k].st # "alive"

\* thread.is_alive(), as wait() asks it
is_alive(k) == job[k].st = "alive"

\* (variant) any terminated job counts as completed
ExitedAny(k) == job[k].code # "None"

\* thread.exitcode == 0
ExitedClean(k) == job[k].code = "0"

\* completed == start_threads
AllCompleted == nCompleted = start_threads

\* (variant) the isinstance(config_server, dict) test left out
HasAnyConfig == sharding \in {"standalone", "replset"}

\* self.sharding, then: config_server and isinstance(config_server, dict)
HasStandaloneConfig == sharding = "standalone"

\* (variant) def close(self, *args)
CloseAcceptsAny(n) == TRUE

\* def close(self): the extra positional arguments the method accepts
CloseAccepts(n) == n = 0

\* thread.terminate() of a job object whose execution unit was never started
\* fails (the process handle does not exist yet)
TerminateRaises(k) == job[k].st = "created"

\* (variant) the summaries gathered for the keys of self.replsets only
get_summaries_replsets ==
    [k \in (DOMAIN states) \cap replsets |->
        [data |-> states[k], live |-> IsAlive(k)]]

\* get_summaries(): every key of self.states is (re)read into self._summary.
\* "live" is a history field: whether the owning job was alive at the read.
get_summaries ==
    [k \in (DOMAIN summary_) \cup (DOMAIN states) |->
        IF k \in DOMAIN states
        THEN [data |-> states[k], live |-> IsAlive(k)]
        ELSE summary_[k]]

\* close(): the jobs the for loop calls terminate() on before it either ends
\* or is left by an exception of terminate()
CloseRaises == \E i \in 1..Len(threads) : TerminateRaises(threads[i])
CloseTerminated ==
    {threads[i] : i \in {n \in 1..Len(threads) :
                            \A m \in 1..n : ~TerminateRaises(threads[m])}}
\* try: self.timer.stop(...) except: pass
CloseTimer == IF CloseRaises THEN timer
              ELSE IF timer = "running" THEN "stopped" ELSE timer

RunPcs == {"dispatch", "start", "wait_for", "wait_pause", "cfg_check", "cfg_start"}
Terminal == {"done", "raised"}

\* ------------------------------------------------- the caller, before run()
\* threads_per_dump(t) called with an explicit thread count; what the call
\* leaves in self._threads_per_dump
SetThreads(t) ==
    /\ pc = "idle"
    /\ CallThreadsPerDump(<<t>>)
    /\ UNCHANGED <<pc, err, inputs, todo, threads, job, handed, states, summary_, completed,
                   timer, waitLocals, phase, termReq, intAt, closeErr, sumRet, nStates>>

\* threads_per_dump() called without a thread count
QueryThreads ==
    /\ pc = "idle"
    /\ CallThreadsPerDump(<<>>)
    /\ UNCHANGED <<pc, err, inputs, todo, threads, job, handed, states, summary_, completed,
                   timer, waitLocals, phase, termReq, intAt, closeErr, sumRet, nStates>>

\* ------------------------------------------------- run()
\* run(): self.timer.start(); the for loop over self.replsets begins
RunBegin ==
    /\ pc = "idle"
    /\ pc' = "dispatch"
    /\ timer' = "running"
    /\ todo' = replsets
    /\ phase' = "shard"
    /\ UNCHANGED <<err, inputs, threads, job, handed, states, summary_, tpd, completed,
                   waitLocals, termReq, intAt, closeErr, callVars, sumRet, nStates>>

\* one iteration of "for shard in self.replsets"
Dispatch(s) ==
    /\ pc = "dispatch"
    /\ s \in todo
    /\ todo' = todo \ {s}
    /\ CASE secondary[s] = "ok" ->
              /\ states' = [k \in (DOMAIN states) \cup {s} |->
                               IF k = s THEN "new" ELSE states[k]]
              /\ job' = [job EXCEPT ![s] = [st |-> "created", code |-> "None"]]
              /\ nStates' = [nStates EXCEPT ![s] = @ + 1]
              /\ CallThreadsPerDump(<<>>)
              /\ handed' = [handed EXCEPT ![s] = Plan]
              /\ threads' = Append(threads, s)
              /\ UNCHANGED <<pc, err>>
         [] secondary[s] = "none" ->
              \* secondary['uri'] on None
              /\ pc' = "raised" /\ err' = "TypeError"
              /\ UNCHANGED <<states, job, tpd, handed, threads, callVars, nStates>>
         [] secondary[s] = "fail" ->
              \* find_secondary() raises; nothing catches it
              /\ pc' = "raised" /\ err' = "OperationError"
              /\ UNCHANGED <<states, job, tpd, handed, threads, callVars, nStates>>
    /\ UNCHANGED <<inputs, summary_, completed, timer, waitLocals, phase, termReq,
                   intAt, closeErr, sumRet>>

\* the loop is over: the emptiness check and the "Starting backups" log line,
\* whose %i needs a number
DispatchDone ==
    /\ pc = "dispatch"
    /\ todo = {}
    /\ IF Len(threads) = 0
       THEN pc' = "raised" /\ err' = "OperationError" /\ UNCHANGED <<tpd, idx, callVars>>
       ELSE /\ CallThreadsPerDump(<<>>)
            /\ IF Plan = <<>>
               THEN pc' = "raised" /\ err' = "TypeError" /\ UNCHANGED idx
               ELSE pc' = "start" /\ idx' = 1 /\ UNCHANGED err
    /\ UNCHANGED <<inputs, todo, threads, job, handed, states, summary_, completed,
                   timer, nCompleted, start_threads, phase, termReq, intAt,
                   closeErr, sumRet, nStates>>

\* one iteration of "for thread in self.threads: thread.start()"
StartThread ==
    /\ pc = "start"
    /\ idx <= Len(threads)
    /\ job' = [job EXCEPT ![threads[idx]].st = "alive"]
    /\ idx' = idx + 1
    /\ UNCHANGED <<pc, err, inputs, todo, threads, handed, states, summary_, tpd,
                   completed, timer, nCompleted, start_threads, phase, termReq,
                   intAt, closeErr, callVars, sumRet, nStates>>

\* (variant) run() goes on to the config server without calling wait()
WaitBeginSkipped ==
    /\ pc = "start"
    /\ idx > Len(threads)
    /\ pc' = "cfg_check"
    /\ UNCHANGED <<err, inputs, todo, threads, job, handed, states, summary_, tpd,
                   completed, timer, waitLocals, phase, termReq, intAt, closeErr, callVars, sumRet, nStates>>

\* wait() is entered: its locals, the first test of the while loop
WaitBegin ==
    /\ pc = "start"
    /\ idx > Len(threads)
    /\ nCompleted' = 0
    /\ start_threads' = Len(threads)
    /\ idx' = 1
    /\ pc' = IF Len(threads) > 0 THEN "wait_for" ELSE "wait_pause"
    /\ UNCHANGED <<err, inputs, todo, threads, job, handed, states, summary_, tpd,
                   completed, timer, phase, termReq, intAt, closeErr, callVars, sumRet, nStates>>

\* (variant) wait() gives up at the first failed job it sees
WaitInspectFailFast ==
    /\ pc = "wait_for"
    /\ idx <= Len(threads)
    /\ LET t == threads[idx] IN
         IF ~is_alive(t)
         THEN /\ nCompleted' = IF ExitedClean(t) THEN nCompleted + 1 ELSE nCompleted
              /\ threads' = RemoveAt(threads, idx)
              /\ IF ExitedClean(t)
                 THEN UNCHANGED <<pc, err>>
                 ELSE pc' = "raised" /\ err' = "OperationError"
         ELSE UNCHANGED <<nCompleted, threads, pc, err>>
    /\ idx' = idx + 1
    /\ UNCHANGED <<inputs, todo, job, handed, states, summary_, tpd, completed,
                   timer, start_threads, phase, termReq, intAt, closeErr, callVars, sumRet, nStates>>

\* one iteration of "for thread in self.threads" inside wait(): the list
\* iterator keeps its index while remove() shifts the elements
WaitInspect ==
    /\ pc = "wait_for"
    /\ idx <= Len(threads)
    /\ LET t == threads[idx] IN
         IF ~is_alive(t)
         THEN /\ nCompleted' = IF ExitedClean(t) THEN nCompleted + 1 ELSE nCompleted
              /\ threads' = RemoveAt(threads, idx)
         ELSE UNCHANGED <<nCompleted, threads>>
    /\ idx' = idx + 1
    /\ UNCHANGED <<pc, err, inputs, todo, job, handed, states, summary_, tpd, completed,
                   timer, start_threads, phase, termReq, intAt, closeErr, callVars, sumRet, nStates>>

\* (variant) a single pass over self.threads: "if" in place of "while"
WaitSleepSinglePass ==
    /\ pc = "wait_for"
    /\ idx > Len(threads)
    /\ idx' = 1
    /\ pc' = "wait_pause"
    /\ UNCHANGED <<err, inputs, todo, threads, job, handed, states, summary_, tpd,
                   completed, timer, nCompleted, start_threads, phase, termReq,
                   intAt, closeErr, callVars, sumRet, nStates>>

\* the for loop is exhausted: sleep(0.5) and the next test of the while loop
WaitSleep ==
    /\ pc = "wait_for"
    /\ idx > Len(threads)
    /\ idx' = 1
    /\ pc' = IF Len(threads) > 0 THEN "wait_for" ELSE "wait_pause"
    /\ UNCHANGED <<err, inputs, todo, threads, job, handed, states, summary_, tpd,
                   completed, timer, nCompleted, start_threads, phase, termReq,
                   intAt, closeErr, callVars, sumRet, nStates>>

\* sleep(3), get_summaries(), the success test; back in run() after the shard
\* phase, or at "self.completed = True; return self._summary" after the
\* config-server phase
WaitFinish ==
    /\ pc = "wait_pause"
    /\ summary_' = get_summaries
    /\ IF AllCompleted
       THEN /\ timer' = "stopped"
            /\ UNCHANGED err
            /\ IF phase = "shard"
               THEN pc' = "cfg_check" /\ UNCHANGED completed
               ELSE pc' = "done" /\ completed' = TRUE
       ELSE /\ pc' = "raised" /\ err' = "OperationError"
            /\ UNCHANGED <<timer, completed>>
    /\ UNCHANGED <<inputs, todo, threads, job, handed, states, tpd, waitLocals, phase,
                   termReq, intAt, closeErr, callVars, sumRet, nStates>>

\* (variant) the config server's OplogState and job are filed under the key
\* left in the loop variable "shard"
ConfigDispatchShardKey ==
    /\ pc = "cfg_check"
    /\ HasStandaloneConfig
    /\ LET key == CHOOSE s \in replsets : TRUE IN
         /\ states' = [k \in (DOMAIN states) \cup {key} |->
                          IF k = key THEN "new" ELSE states[k]]
         /\ job' = [job EXCEPT ![key] = [st |-> "created", code |-> "None"]]
         /\ nStates' = [nStates EXCEPT ![key] = @ + 1]
         /\ handed' = [handed EXCEPT ![key] = Plan]
         /\ threads' = <<key>>
    /\ CallThreadsPerDump(<<>>)
    /\ phase' = "configsvr"
    /\ pc' = "cfg_start"
    /\ UNCHANGED <<err, inputs, todo, summary_, completed, timer, waitLocals, termReq,
                   intAt, closeErr, sumRet>>

\* a standalone config server exists: its OplogState and its single job
ConfigDispatch ==
    /\ pc = "cfg_check"
    /\ HasStandaloneConfig
    /\ states' = [k \in (DOMAIN states) \cup {ConfigKey} |->
                     IF k = ConfigKey THEN "new" ELSE states[k]]
    /\ job' = [job EXCEPT ![ConfigKey] = [st |-> "created", code |-> "None"]]
    /\ nStates' = [nStates EXCEPT ![ConfigKey] = @ + 1]
    /\ CallThreadsPerDump(<<>>)
    /\ handed' = [handed EXCEPT ![ConfigKey] = Plan]
    /\ threads' = <<ConfigKey>>
    /\ phase' = "configsvr"
    /\ pc' = "cfg_start"
    /\ UNCHANGED <<err, inputs, todo, summary_, completed, timer, waitLocals, termReq,
                   intAt, closeErr, sumRet>>

\* self.threads[0].start() and the entry of the second wait()
ConfigStart ==
    /\ pc = "cfg_start"
    /\ job' = [job EXCEPT ![threads[1]].st = "alive"]
    /\ nCompleted' = 0
    /\ start_threads' = Len(threads)
    /\ idx' = 1
    /\ pc' = "wait_for"
    /\ UNCHANGED <<err, inputs, todo, threads, handed, states, summary_, tpd, completed,
                   timer, phase, termReq, intAt, closeErr, callVars, sumRet, nStates>>

\* no standalone config server: self.completed = True; return self._summary
ConfigSkip ==
    /\ pc = "cfg_check"
    /\ ~HasStandaloneConfig
    /\ completed' = TRUE
    /\ pc' = "done"
    /\ UNCHANGED <<err, inputs, todo, threads, job, handed, states, summary_, tpd, timer,
                   waitLocals, phase, termReq, intAt, closeErr, callVars, sumRet, nStates>>

\* ------------------------------------------------- the dump jobs
\* a running job records the first oplog bound in its OplogState
JobWrite(k) ==
    /\ IsAlive(k)
    /\ states[k] = "new"
    /\ states' = [states EXCEPT ![k] = "partial"]
    /\ UNCHANGED <<pc, err, inputs, todo, threads, job, handed, summary_, tpd, completed,
                   timer, waitLocals, phase, termReq, intAt, closeErr, callVars, sumRet, nStates>>

\* a job's execution unit ends: exit status 0 after the last oplog bound was
\* recorded, a failure, or death by the SIGTERM of terminate()
JobExit(k, c) ==
    /\ IsAlive(k)
    /\ c = "-15" => k \in termReq
    /\ job' = [job EXCEPT ![k] = [st |-> "exited", code |-> c]]
    /\ states' = IF c = "0" THEN [states EXCEPT ![k] = "complete"] ELSE states
    /\ UNCHANGED <<pc, err, inputs, todo, threads, handed, summary_, tpd, completed,
                   timer, waitLocals, phase, termReq, intAt, closeErr, callVars, sumRet, nStates>>

\* ------------------------------------------------- the caller, after run()
\* (variant) summary() hands the entries out and empties self._summary
SummaryDraining ==
    /\ pc = "done"
    /\ sumRet' = <<summary_>>
    /\ summary_' = EmptyMap
    /\ UNCHANGED <<pc, err, inputs, todo, threads, job, handed, states, tpd,
                   completed, timer, waitLocals, phase, termReq, intAt, closeErr,
                   callVars, nStates>>

\* summary(): return self._summary, read by the caller of a run() that returned
Summary ==
    /\ pc = "done"
    /\ sumRet' = <<summary_>>
    /\ UNCHANGED <<pc, err, inputs, todo, threads, job, handed, states, summary_, tpd,
                   completed, timer, waitLocals, phase, termReq, intAt, closeErr,
                   callVars, nStates>>

\* ------------------------------------------------- cancellation
\* SIGINT reaches the control thread inside run(): the interpreter calls the
\* registered handler, self.close, with (signum, frame)
SigInt ==
    /\ pc \in RunPcs
    /\ intAt' = pc
    /\ IF CloseAccepts(SignalHandlerArgs)
       THEN /\ termReq' = termReq \cup CloseTerminated
            /\ timer' = CloseTimer
            /\ IF CloseRaises
               THEN pc' = "raised" /\ err' = "AttributeError"
                    /\ closeErr' = "AttributeError"
               ELSE UNCHANGED <<pc, err, closeErr, callVars, sumRet, nStates>>
       ELSE /\ pc' = "raised" /\ err' = "TypeError" /\ closeErr' = "TypeError"
            /\ UNCHANGED <<termReq, timer>>
    /\ UNCHANGED <<inputs, todo, threads, job, handed, states, summary_, tpd, completed,
                   waitLocals, phase, callVars, sumRet, nStates>>

\* close() called by the owner of the object, outside run()
Close ==
    /\ pc \in {"idle"} \cup Terminal
    /\ termReq' = termReq \cup CloseTerminated
    /\ timer' = CloseTimer
    /\ closeErr' = IF CloseRaises THEN "AttributeError" ELSE closeErr
    /\ UNCHANGED <<pc, err, inputs, todo, threads, job, handed, states, summary_, tpd,
                   completed, waitLocals, phase, intAt, callVars, sumRet, nStates>>

Next ==
    \/ \E t \in 0..MaxOverride : SetThreads(t)
    \/ RunBegin
    \/ \E s \in Shards : Dispatch(s)
    \/ DispatchDone
    \/ StartThread
    \/ WaitBegin
    \/ WaitInspect
    \/ WaitSleep
    \/ WaitFinish
    \/ ConfigDispatch
    \/ ConfigStart
    \/ ConfigSkip
    \/ \E k \in Keys : JobWrite(k)
    \/ \E k \in Keys, c \in {"0", "1", "-15"} : JobExit(k, c)
    \/ SigInt
    \/ Close
    \/ Summary

Spec == Init /\ [][Next]_vars

\* One run under scheduling: the control thread takes its next step whenever
\* it has one, and every started job ends at some time.
ControlStep ==
    \/ \E s \in Shards : Dispatch(s)
    \/ DispatchDone
    \/ StartThread
    \/ WaitBegin
    \/ WaitInspect
    \/ WaitSleep
    \/ WaitFinish
    \/ ConfigDispatch
    \/ ConfigStart
    \/ ConfigSkip

JobEnds(k) == \E c \in {"0", "1", "-15"} : JobExit(k, c)

NextLive ==
    \/ RunBegin
    \/ ControlStep
    \/ \E k \in Keys : JobWrite(k)
    \/ \E k \in Keys : JobEnds(k)
    \/ SigInt

LiveSpec ==
    /\ Init
    /\ [][NextLive]_vars
    /\ WF_vars(ControlStep)
    /\ \A k \in Keys : WF_vars(JobEnds(k))

\* the calls of threads_per_dump() alone, on an object that is not running
NextPlan ==
    \/ \E t \in 0..PlanMaxOverride : SetThreads(t)
    \/ QueryThreads

SpecPlan == InitPlan /\ [][NextPlan]_vars


\* ================================================================ claims
Started == {k \in Keys : job[k].st \in {"alive", "exited"}}
ShardJobs == {k \in Shards : job[k].st # "none"}
ConfigRan == job[ConfigKey].st # "none"
RunEnded == pc \in Terminal /\ phase # "none"
Uninterrupted == intAt = "none"

\* C1: run() returns only if every job it started exited with status 0; and a
\* run that executed a phase and was not aborted by an interrupt returns
\* exactly when all its jobs exited with 0, and otherwise fails with the
\* OperationError of wait(), even when a single job failed.
C1_SuccessIffAllJobsClean ==
    /\ pc = "done" => /\ Started # {}
                      /\ \A k \in Started : job[k].code = "0"
    /\ (RunEnded /\ Uninterrupted /\ Started # {}) =>
          /\ pc = "done" <=> \A k \in Started : job[k].code = "0"
          /\ pc = "raised" => err = "OperationError"

C1_Witness ==
    /\ pc = "raised" /\ err = "OperationError" /\ Uninterrupted
    /\ Started = {1, 2}
    /\ job[1].code = "0" /\ job[2].code = "1"

\* C2: wait() is past its polling loop only when every started job is
\* terminal, and a run that fails with OperationError after jobs were started
\* has waited for all of them and holds a summary entry for every key of
\* self.states.
C2_FailureAfterAllSiblings ==
    /\ pc = "wait_pause" => \A k \in Keys : job[k].st # "alive"
    /\ (pc = "raised" /\ err = "OperationError" /\ Started # {}) =>
          /\ \A k \in Keys : job[k].st \in {"none", "exited"}
          /\ DOMAIN summary_ = DOMAIN states
          /\ replsets \subseteq DOMAIN summary_

C2_Witness ==
    /\ pc = "raised" /\ err = "OperationError"
    /\ Cardinality(replsets) = 2
    /\ Cardinality({k \in Started : job[k].code # "0"}) = 1
    /\ DOMAIN summary_ = replsets
    /\ \E k \in DOMAIN summary_ : summary_[k].data = "complete"

\* C3: after a SIGINT that arrived while run() was in a wait phase, every job
\* tracked in self.threads has received terminate() and run() has not returned.
C3_InterruptTerminatesTracked ==
    intAt \in {"wait_for", "wait_pause"} =>
        /\ \A i \in 1..Len(threads) : threads[i] \in termReq
        /\ pc # "done"

\* C4: once a SIGINT has been delivered, no job is started any more, no job is
\* created, and run() does not reach its return statement.
C4_CancelIsTerminal ==
    [][intAt # "none" =>
          /\ \A k \in Keys : job'[k].st \in {"created", "alive"} =>
                                job[k].st = job'[k].st
          /\ pc' # "done"
          /\ completed' = completed
          /\ pc = "raised" /\ pc' = "raised"]_vars

C4_Witness ==
    /\ intAt = "cfg_check" /\ pc = "raised"
    /\ sharding = "standalone" /\ job[ConfigKey].st = "none"
    /\ \E k \in Shards : job[k].st = "exited"

\* C5: when no shard of replsets yields an eligible secondary, run() ends with
\* OperationError and no job was started.
C5_NoSecondaryIsOperationError ==
    (RunEnded /\ Uninterrupted /\ \A s \in replsets : secondary[s] # "ok") =>
        /\ err = "OperationError"
        /\ Started = {}

\* C6 as stated: when all N shard jobs succeeded, run() ends without error and
\* its summary has exactly the N shard keys, plus 'configsvr' if that phase ran.
C6_AllShardsCleanGivesSummary ==
    (/\ RunEnded /\ Uninterrupted
     /\ ShardJobs = replsets /\ replsets # {}
     /\ \A k \in replsets : job[k].code = "0") =>
        /\ pc = "done" /\ err = "none"
        /\ DOMAIN summary_ = replsets \cup (IF ConfigRan THEN {ConfigKey} ELSE {})

\* C6 amended: the same, when the config-server job, if that phase ran,
\* succeeded as well.
C6_AllJobsCleanGivesSummary ==
    (/\ RunEnded /\ Uninterrupted
     /\ ShardJobs = replsets /\ replsets # {}
     /\ \A k \in replsets : job[k].code = "0"
     /\ ConfigRan => job[ConfigKey].code = "0") =>
        /\ pc = "done" /\ err = "none"
        /\ DOMAIN summary_ = replsets \cup (IF ConfigRan THEN {ConfigKey} ELSE {})
        /\ Cardinality(DOMAIN summary_) =
              Cardinality(replsets) + (IF ConfigRan THEN 1 ELSE 0)

C6_Witness ==
    /\ pc = "done" /\ Cardinality(replsets) = 2 /\ ConfigRan
    /\ Cardinality(DOMAIN summary_) = 3

\* C7: no summary entry was read while its job was alive, and the point where
\* get_summaries() runs is reached only with no job alive.
C7_SummaryAfterTermination ==
    /\ \A k \in DOMAIN summary_ : ~summary_[k].live /\ job[k].st = "exited"
    /\ pc = "wait_pause" => \A i \in DOMAIN states : job[i].st = "exited"

C7_Witness ==
    /\ DOMAIN summary_ = {1, 2}
    /\ summary_[1].data = "partial" /\ summary_[2].data = "complete"
    /\ pc = "raised"

\* C8: once the config-server job exists, every shard job has exited and the
\* shard phase's summaries have been gathered; no shard job is alive with it.
C8_PhasesSequential ==
    ConfigRan =>
        /\ \A s \in Shards : job[s].st \in {"none", "exited"}
        /\ \A s \in replsets : job[s].st = "exited" /\ s \in DOMAIN summary_
        /\ phase = "configsvr"

C8_Witness ==
    /\ job[ConfigKey].st = "alive" /\ Cardinality(replsets) = 2
    /\ \A s \in replsets : job[s].st = "exited"

\* C9: a config-server job exists only if a sharding collaborator reported a
\* standalone config server, it is then the only job of its phase, and from
\* the end of a successful shard phase without one, run() goes to its return
\* with no error and without creating that job.
C9_ConfigOnlyWhenStandalone ==
    [][/\ job'[ConfigKey].st # "none" => sharding = "standalone"
       /\ phase' = "configsvr" =>
             /\ Len(threads') <= 1
             /\ \A i \in 1..Len(threads') : threads'[i] = ConfigKey
             /\ pc' \in {"wait_for", "wait_pause"} => start_threads' = 1
       /\ (pc = "cfg_check" /\ sharding # "standalone" /\ pc' # pc /\ intAt' = "none") =>
             /\ pc' = "done" /\ err' = "none" /\ completed'
             /\ job' = job /\ states' = states
      ]_vars

C9_Witness ==
    /\ pc = "done" /\ sharding = "replset" /\ Cardinality(replsets) = 2
    /\ job[ConfigKey].st = "none" /\ ConfigKey \notin DOMAIN states

\* C10: neither the invocation of close() as SIGINT handler nor close() itself
\* ever ends with an exception.
C10_CloseNeverRaises == closeErr = "none"


\* ------------------------------------------------------------ the planner
\* the arithmetic of the claims, written without the code's operators
Min2(a, b) == IF a < b THEN a ELSE b
Max2(a, b) == IF a > b THEN a ELSE b
Clamp(x, lo, hi) == Max2(lo, Min2(x, hi))
NShards == Cardinality(replsets)
ExpectedWorkers ==
    IF cpu_count > NShards THEN Clamp(cpu_count \div NShards, 1, 16) ELSE 1

RECURSIVE StrNum(_)
StrNum(d) == IF d = <<>> THEN 0 ELSE 10 * StrNum(SubSeq(d, 1, Len(d) - 1)) + d[Len(d)]
RECURSIVE NumTupleLE(_, _)
NumTupleLE(a, b) ==
    IF a = <<>> THEN TRUE
    ELSE IF b = <<>> THEN FALSE
    ELSE IF StrNum(Head(a)) = StrNum(Head(b)) THEN NumTupleLE(Tail(a), Tail(b))
    ELSE StrNum(Head(a)) < StrNum(Head(b))
AtLeast_3_2_0(v) == NumTupleLE(V_3_2_0, v)

\* C12: a version that is numerically at least 3.2.0, such as 3.10.0, passes
\* the gzip test and the threading test, so a call of threads_per_dump()
\* plans a worker count for it.
C12_NumericVersionCompare ==
    AtLeast_3_2_0(version) =>
        /\ can_gzip
        /\ VersionSupported(version)
        /\ (called /\ NShards >= 1) => ret # <<>>

\* C13: for a version below 3.2.0 and no explicit thread count, every call of
\* threads_per_dump() without argument returns 1 and every job is handed 1.
C13_OldVersionOneWorker ==
    (~AtLeast_3_2_0(version) /\ ovr = <<>>) =>
        /\ (called /\ lastArg = <<>>) => ret = <<1>>
        /\ \A k \in Keys : job[k].st # "none" => handed[k] = <<1>>

\* C14 as stated: whenever a worker-thread count is stored, it is at least 1
\* and at most 16, whatever the CPU count, the shard count and the override.
C14_PlanWithinCap ==
    tpd # <<>> => (1 <= tpd[1] /\ tpd[1] <= 16)

\* C14 amended: a worker-thread count that threads_per_dump() computed itself
\* (no non-zero thread count was ever passed) is at least 1 and at most 16,
\* whatever the CPU count and the shard count.
C14_ComputedPlanWithinCap ==
    (tpd # <<>> /\ ovr = <<>>) =>
        /\ 1 <= tpd[1] /\ tpd[1] <= 16
        /\ called => (ret = <<>> \/ (1 <= ret[1] /\ ret[1] <= 16))

C14_Witness ==
    /\ called /\ ovr = <<>> /\ tpd = <<16>>
    /\ NShards = 2 /\ cpu_count = 36

\* C16 as stated: a call with any explicit thread count t stores and returns t.
C16_OverrideAlwaysWins ==
    (called /\ lastArg # <<>>) => (ret = lastArg /\ tpd = lastArg)

\* C16 amended: a call with a non-zero thread count t stores and returns t,
\* whatever the version and the CPU count, and every later call without a
\* non-zero count returns the last such t.
C16_NonZeroOverrideWins ==
    /\ Truthy(lastArg) => (ret = lastArg /\ tpd = lastArg)
    /\ (called /\ ovr # <<>>) => (ret = ovr /\ tpd = ovr)

C16_Witness ==
    /\ called /\ lastArg = <<>> /\ ovr = <<17>> /\ ret = <<17>>
    /\ VersionSupported(version) /\ NShards = 2 /\ cpu_count = 2

\* C17: all jobs built in a run are handed the same worker-thread count, the
\* one cached in self._threads_per_dump, and no call without a non-zero
\* thread count changes a cached count.
C17_PlanComputedOnce ==
    [][/\ \A j, k \in Keys :
             (job'[j].st # "none" /\ job'[k].st # "none") => handed'[j] = handed'[k]
       /\ \A k \in Keys :
             (job[k].st = "none" /\ job'[k].st # "none") => handed'[k] = tpd'
       /\ (Truthy(tpd) /\ ~Truthy(lastArg')) => tpd' = tpd
      ]_vars

C17_Witness ==
    /\ job[ConfigKey].st # "none" /\ job[1].st # "none"
    /\ handed[1] = <<2>> /\ handed[ConfigKey] = <<2>>
    /\ ovr = <<>>


\* C15: once run() has returned, a summary() call changes nothing of the
\* orchestrator (no job is built or started, self.threads, self.states and
\* self._summary stay), returns self._summary, and every further call returns
\* the value the first one returned.
C15_SummaryIdempotent ==
    [][pc = "done" =>
          /\ sumRet' # sumRet =>
                /\ sumRet' = <<summary_>>
                /\ summary_' = summary_ /\ states' = states /\ threads' = threads
                /\ job' = job /\ nStates' = nStates /\ pc' = pc
          /\ sumRet # <<>> => sumRet' = sumRet
      ]_vars

C15_Witness ==
    /\ pc = "done" /\ sumRet = <<summary_>>
    /\ DOMAIN summary_ = {ConfigKey, 1, 2}

\* C18: every key of self.states had exactly one OplogState built for it, with
\* exactly one job around it; the tracked jobs are distinct and are jobs of
\* scheduled targets.
C18_OneStateOneJob ==
    /\ \A k \in Keys : nStates[k] <= 1
    /\ \A k \in Keys : k \in DOMAIN states <=> nStates[k] = 1
    /\ \A k \in Keys : job[k].st # "none" <=> nStates[k] = 1
    /\ DOMAIN states \subseteq replsets \cup {ConfigKey}
    /\ \A i, j \in 1..Len(threads) :
          /\ threads[i] \in DOMAIN states
          /\ threads[i] = threads[j] => i = j

C18_Witness ==
    /\ nStates[ConfigKey] = 1 /\ nStates[1] = 1 /\ nStates[2] = 1
    /\ job[ConfigKey].st = "alive"

\* every job that was started and has not ended is in self.threads
TrackedInFlight ==
    \A k \in Keys : job[k].st = "alive" => \E i \in 1..Len(threads) : threads[i] = k

\* C19: every in-flight job is in self.threads, and after a SIGINT every job
\* still in flight has received terminate().
C19_NoOrphanOnCancel ==
    /\ TrackedInFlight
    /\ intAt # "none" => \A k \in Keys : job[k].st = "alive" => k \in termReq

\* the jobs of the phase wait() serves
PhaseJobs == IF phase = "shard" THEN (DOMAIN states) \ {ConfigKey} ELSE {ConfigKey}

\* C20: with the control thread scheduled and every started job ending,
\* wait() leaves its polling loop, run() returns or raises, and when the loop
\* is left regularly every job of the phase has been removed and the clean
\* ones have been counted once each.
C20_WaitTerminates ==
    /\ (pc = "wait_for") ~> (pc \in {"wait_pause", "raised"})
    /\ (pc \in RunPcs) ~> (pc \in Terminal)
    /\ [](pc = "wait_pause" =>
            /\ threads = <<>>
            /\ \A k \in PhaseJobs : job[k].st = "exited"
            /\ nCompleted = Cardinality({k \in PhaseJobs : job[k].code = "0"})
            /\ start_threads = Cardinality(PhaseJobs))

\* the second of two jobs was passed over because the first was removed
C20_Witness ==
    /\ pc = "wait_for" /\ start_threads = 2 /\ Len(threads) = 1 /\ idx = 2
    /\ job[threads[1]].st = "exited"

====
